---- MODULE Spec2Model ----
(***************************************************************************)
(* A model of the rss-digest pipeline: src/services/digest_service.py      *)
(* (history store, processed-id tracker, category splitter, delivery and   *)
(* the run_digest_process orchestrator).                                   *)
(*                                                                         *)
(* Texts.  A text is the sequence of its lines (str.split('\n')); the      *)
(* empty string is the empty sequence.  A line is a record                 *)
(*   kind = "title"  a line whose strip() starts with "# "; n is the       *)
(*                   timestamp printed in it (0: the default title that    *)
(*                   carries none), mark is 0, 1 for a trailing " (1/2)",  *)
(*                   2 for a trailing " (2/2)"                             *)
(*   kind = "hdr"    the line "## <cat>", cat one of the six categories    *)
(*   kind = "text"   any other non-blank line, n tells lines apart         *)
(*   kind = "fail"   a non-blank line that contains one of the failure     *)
(*                   markers "Failed to generate digest" / "无法生成摘要"  *)
(*   kind = "bullet" a line whose strip() starts with "- "                 *)
(*   kind = "blank"  a line of whitespace only (possibly none)             *)
(* A non-empty sequence of blank lines stands for a whitespace-only,       *)
(* non-empty string.                                                       *)
(***************************************************************************)
EXTENDS Integers, Sequences, FiniteSets, TLC

\* ------------------------------------------------------------------ bounds
MaxRuns == 2
MaxTicks == 1
MaxBodyLines == 1
MaxUpdates == 2
MaxMdLines == 5

\* ------------------------------------------------------- program constants
DIGEST_HISTORY_LIMIT == 10
max_attempts == 2
CUTOFF_HOURS == 48
TS_DIGITS == 10

PART1_CATEGORIES == <<"AI", "Semi", "Smartphone">>
PART2_CATEGORIES == <<"Other Tech", "World News", "Misc">>

\* ------------------------------------------------------------------- lines
Title(n, m) == [kind |-> "title", cat |-> "", n |-> n, mark |-> m]
Hdr(c) == [kind |-> "hdr", cat |-> c, n |-> 0, mark |-> 0]
Txt(i) == [kind |-> "text", cat |-> "", n |-> i, mark |-> 0]
FailLine(i) == [kind |-> "fail", cat |-> "", n |-> i, mark |-> 0]
Blank == [kind |-> "blank", cat |-> "", n |-> 0, mark |-> 0]
Bullet(i) == [kind |-> "bullet", cat |-> "", n |-> i, mark |-> 0]

EmptyText == << >>

\* bool(s): a Python string is truthy iff it is not ""
Truthy(text) == Len(text) > 0

\* s.strip() is empty
IsBlank(text) == \A i \in 1..Len(text) : text[i].kind = "blank"

RECURSIVE LStrip(_)
LStrip(text) ==
    IF text = << >> THEN << >>
    ELSE IF Head(text).kind = "blank" THEN LStrip(Tail(text)) ELSE text

RECURSIVE RStrip(_)
RStrip(text) ==
    IF text = << >> THEN << >>
    ELSE IF text[Len(text)].kind = "blank"
         THEN RStrip(SubSeq(text, 1, Len(text) - 1)) ELSE text

\* s.strip(), on whole lines
Strip(text) == RStrip(LStrip(text))

\* any(ind in digest for ind in ["Failed to generate digest", "无法生成摘要"])
HasFailureIndicator(text) == \E i \in 1..Len(text) : text[i].kind = "fail"

\* --------------------------------------------------------------- splitter
Categories == {"AI", "Semi", "Smartphone", "Other Tech", "World News", "Misc"}

\* line.strip().startswith('# ')
IsTitleLine(line) == line.kind = "title"

\* the loop that looks for the title: the index of the first title line, 0 if none
RECURSIVE FirstTitle(_, _)
FirstTitle(lines, i) ==
    IF i > Len(lines) THEN 0
    ELSE IF IsTitleLine(lines[i]) THEN i ELSE FirstTitle(lines, i + 1)

\* title_line: "" (the empty text) or the one title line
TitleLineOf(lines) ==
    LET i == FirstTitle(lines, 1) IN IF i = 0 THEN EmptyText ELSE <<lines[i]>>

\* content = '\n'.join(lines[content_start:]); content_start stays 0 with no title
ContentOf(lines) == SubSeq(lines, FirstTitle(lines, 1) + 1, Len(lines))

\* re.split(category_pattern, content): the text before the first header, then
\* alternately a header and the text that follows it
RECURSIVE RegexSplit(_, _, _)
RegexSplit(content, i, chunk) ==
    IF i > Len(content) THEN <<chunk>>
    ELSE IF content[i].kind = "hdr"
         THEN <<chunk, <<content[i]>> >> \o RegexSplit(content, i + 1, EmptyText)
         ELSE RegexSplit(content, i + 1, Append(chunk, content[i]))

\* re.match(r'^## (AI|...)$', part)
IsHeaderPart(part) == Len(part) = 1 /\ part[1].kind = "hdr"

NoSections == [c \in Categories |-> [present |-> FALSE, body |-> EmptyText]]

\* the loop that rebuilds the sections dict; current = "" stands for None
RECURSIVE BuildSections(_, _, _, _)
BuildSections(parts, i, sections, current) ==
    IF i > Len(parts) THEN sections
    ELSE LET part == Strip(parts[i]) IN
         IF ~Truthy(part) THEN BuildSections(parts, i + 1, sections, current)
         ELSE IF IsHeaderPart(part)
              THEN BuildSections(parts, i + 1,
                       [sections EXCEPT ![part[1].cat] =
                            [present |-> TRUE, body |-> EmptyText]],
                       part[1].cat)
         ELSE IF current # ""
              THEN BuildSections(parts, i + 1,
                       [sections EXCEPT ![current] =
                            [present |-> TRUE, body |-> part]],
                       current)
         ELSE BuildSections(parts, i + 1, sections, current)

\* The one element of a singleton.  Only({F(x) : x \in {e}}) is F(e) with e
\* evaluated once, whatever the number of uses of x in F.
Only(S) == CHOOSE x \in S : TRUE

\* parts = re.split(...), then the sections dict built from them
SectionsOf(digest_text) ==
    Only({BuildSections(ps, 1, NoSections, "") :
             ps \in {RegexSplit(ContentOf(digest_text), 1, EmptyText)}})

\* mutant: a category whose section is blank is kept
RECURSIVE PartSections_KeepEmpty(_, _, _)
PartSections_KeepEmpty(cats, i, sections) ==
    IF i > Len(cats) THEN << >>
    ELSE LET c == cats[i]
             rest == PartSections_KeepEmpty(cats, i + 1, sections)
         IN IF sections[c].present
            THEN << <<Hdr(c)>> \o sections[c].body >> \o rest
            ELSE rest

\* part1_sections / part2_sections: the list of "## {cat}\n{sections[cat]}"
RECURSIVE PartSections(_, _, _)
PartSections(cats, i, sections) ==
    IF i > Len(cats) THEN << >>
    ELSE LET c == cats[i]
             rest == PartSections(cats, i + 1, sections)
         IN IF sections[c].present /\ ~IsBlank(sections[c].body)
            THEN << <<Hdr(c)>> \o sections[c].body >> \o rest
            ELSE rest

\* "\n\n".join(list)
RECURSIVE JoinBlank(_)
JoinBlank(list) ==
    IF list = << >> THEN EmptyText
    ELSE IF Len(list) = 1 THEN list[1]
    ELSE list[1] \o <<Blank>> \o JoinBlank(Tail(list))

\* mutant: the "(k/2)" suffix is forgotten
TitleWithMarker_NoSuffix(title_line, k) ==
    IF Truthy(title_line) THEN title_line ELSE <<Title(0, 0)>>

\* title_line.rstrip() + " (k/2)", or the default title with the marker
TitleWithMarker(title_line, k) ==
    IF Truthy(title_line) THEN <<[title_line[1] EXCEPT !.mark = k]>>
    ELSE <<Title(0, k)>>

\* title_line if title_line else "# RSS 新闻摘要"
TitleNoMarker(title_line) ==
    IF Truthy(title_line) THEN title_line ELSE <<Title(0, 0)>>

\* the second half of _split_digest_by_category: the parts from the sections
PartsFromSections(title_line, sections) ==
    LET part1_sections == PartSections(PART1_CATEGORIES, 1, sections)
        part2_sections == PartSections(PART2_CATEGORIES, 1, sections)
        has_part1 == part1_sections # << >>
        has_part2 == part2_sections # << >>
        use_markers == has_part1 /\ has_part2
        title1 == IF use_markers THEN TitleWithMarker(title_line, 1)
                  ELSE TitleNoMarker(title_line)
        title2 == IF use_markers THEN TitleWithMarker(title_line, 2)
                  ELSE TitleNoMarker(title_line)
    IN [part1 |-> IF has_part1
                  THEN title1 \o <<Blank>> \o JoinBlank(part1_sections)
                  ELSE EmptyText,
        part2 |-> IF has_part2
                  THEN title2 \o <<Blank>> \o JoinBlank(part2_sections)
                  ELSE EmptyText]

split_digest_by_category(digest_text) ==
    Only({PartsFromSections(t, sec) :
             t \in {TitleLineOf(digest_text)}, sec \in {SectionsOf(digest_text)}})

\* ------------------------------------------------- Markdown to Telegraph
\* An element of html_parts: a tag that opens or closes the list ("ul",
\* "/ul"), the empty paragraph '<p><br/></p>' ("br"), or a line's content
\* between the tags of a heading, a list item or a paragraph ("h4", "li",
\* "p"); src holds the line the content comes from.
Tag(t) == [tag |-> t, src |-> << >>]
Element(t, line) == [tag |-> t, src |-> <<line>>]

\* lines = markdown_text.strip().split('\n'): "".split('\n') is ['']
MdLines(markdown_text) ==
    IF Strip(markdown_text) = << >> THEN <<Blank>> ELSE Strip(markdown_text)

\* mutant: an open list is never closed before the next element
CloseList_Never(in_list) == << >>

\* if in_list: html_parts.append('</ul>')
CloseList(in_list) == IF in_list THEN <<Tag("/ul")>> ELSE << >>

\* the loop over the lines, from line i on, and the closing of a list that
\* is open at the end
RECURSIVE ConvertLines(_, _, _)
ConvertLines(lines, i, in_list) ==
    IF i > Len(lines) THEN CloseList(in_list)
    ELSE LET line == lines[i] IN
         IF line.kind = "blank"
         THEN CloseList(in_list) \o <<Tag("br")>> \o ConvertLines(lines, i + 1, FALSE)
         ELSE IF line.kind = "title"
         THEN ConvertLines(lines, i + 1, in_list)
         ELSE IF line.kind = "hdr"
         THEN CloseList(in_list) \o <<Element("h4", line)>>
                  \o ConvertLines(lines, i + 1, FALSE)
         ELSE IF line.kind = "bullet"
         THEN (IF in_list THEN << >> ELSE <<Tag("ul")>>) \o <<Element("li", line)>>
                  \o ConvertLines(lines, i + 1, TRUE)
         ELSE CloseList(in_list) \o <<Element("p", line)>>
                  \o ConvertLines(lines, i + 1, FALSE)

\* _markdown_to_telegraph_html: html_parts, which the function joins
markdown_to_telegraph_html(markdown_text) ==
    Only({ConvertLines(lines, 1, FALSE) : lines \in {MdLines(markdown_text)}})

\* the lines a Markdown text is made of
MdAlphabet == {Title(1, 0), Hdr("AI"), Txt(1), Bullet(1), Blank}

\* ------------------------------------------------------- processed-id ids
\* An entry id is the sequence of the decimal digits of str(eid).
RECURSIVE IntOfDigits(_)
IntOfDigits(ds) ==
    IF ds = << >> THEN 0
    ELSE 10 * IntOfDigits(SubSeq(ds, 1, Len(ds) - 1)) + ds[Len(ds)]

RECURSIVE DigitsOf(_)
DigitsOf(k) == IF k < 10 THEN <<k>> ELSE Append(DigitsOf(k \div 10), k % 10)

Min(a, b) == IF a < b THEN a ELSE b

\* int(str(eid)[:10])
IdTimestamp(eid) == IntOfDigits(SubSeq(eid, 1, Min(TS_DIGITS, Len(eid))))

\* int((now - timedelta(hours=48)).timestamp()), t the clock in whole seconds:
\* 48 hours are whole seconds, so int() of the difference is int(now) less them
CutoffTs(t) == t - CUTOFF_HOURS * 3600

\* mutant: only the new ids are filtered by the cutoff
FilteredIds_NewOnly(existing, new_ids, t) ==
    existing \cup {eid \in new_ids : IdTimestamp(eid) >= CutoffTs(t)}

\* mutant: an id stamped exactly at the cutoff is dropped
FilteredIds_Strict(existing, new_ids, t) ==
    {eid \in existing \cup new_ids : IdTimestamp(eid) > CutoffTs(t)}

\* all_ids_set filtered by the cutoff
FilteredIds(existing, new_ids, t) ==
    {eid \in existing \cup new_ids : IdTimestamp(eid) >= CutoffTs(t)}

\* ------------------------------------------------------------ environment
\* The clock starts at T0 (epoch seconds) and advances a day at a time.
T0 == 17 * 100000000
TickSeconds == 24 * 3600

\* FreshRSS entry ids: the epoch seconds of ingestion followed by six digits
EntryId(ts, k) == DigitsOf(ts) \o <<0, 0, 0, 0, 0, k>>

\* the entries of the database: ingested now and two days ago
AllEntries == {EntryId(T0, 1), EntryId(T0 - 2 * TickSeconds, 2)}

\* get_recent_entries: any of the entries whose id is not in the processed-id
\* file (as a list it may be empty)
get_recent_entries(processed) == SUBSET (AllEntries \ processed)

\* telegram.send_message(text) returns {"success": True} or {"success": False, ...}
SendResults == BOOLEAN

\* an open, a json.load or a json.dump of a persisted file works or raises
IoResults == BOOLEAN

\* what summarize_articles may return: None/"", whitespace, summaries
Stage1Outputs == {EmptyText, <<Blank>>, <<Txt(1)>>}

\* what finalize_digest_from_article_summaries may return
BodyBoth == <<Hdr("AI"), Txt(1), Blank, Hdr("World News"), Txt(2)>>
BodyFirst == <<Hdr("Semi"), Txt(1)>>
BodySecond == <<Hdr("AI"), Blank, Hdr("Misc"), Txt(2)>>
BodyPlain == <<Txt(3)>>
BodyMarker == <<Hdr("AI"), FailLine(4)>>
Stage2Outputs ==
    {EmptyText, <<Blank>>, BodyBoth, BodyFirst, BodySecond, BodyPlain, BodyMarker}

\* a digest of an earlier run, as found in the history file
OldDigest(i) == <<Title(i, 0), Blank, Hdr("AI"), Txt(1)>>
OldHistory(k) == [j \in 1..k |-> OldDigest(k + 1 - j)]
InitHistoryLens == {0, DIGEST_HISTORY_LIMIT}

\* ---- ids given to _update_processed_ids when it is called directly
\* ids stamped a second before the cutoff of a call at T0, at the cutoff, a
\* second after it and at T0, and an id of fewer than ten digits
IdPool ==
    {EntryId(T0 - CUTOFF_HOURS * 3600 - 1, 1), EntryId(T0 - CUTOFF_HOURS * 3600, 2),
     EntryId(T0 - CUTOFF_HOURS * 3600 + 1, 3), EntryId(T0, 4), <<4, 2>>}

\* datetime.datetime.now() at the call
UpdTimes == {T0, T0 + 1}

\* ---- digests given to _split_digest_by_category when it is called directly
\* the orders in which category headers may follow one another: each category
\* at most once
RECURSIVE OrdersOf(_)
OrdersOf(cats) ==
    {<< >>} \cup UNION {{<<c>> \o o : o \in OrdersOf(cats \ {c})} : c \in cats}

SectionOrders == OrdersOf(Categories)

\* "## <c>" followed by k lines of content and a blank line
Section(c, k) == <<Hdr(c)>> \o [i \in 1..k |-> Txt(i)] \o <<Blank>>

\* the sections in the given order; those of filled have k lines of content,
\* the others none
RECURSIVE SectionsText(_, _, _)
SectionsText(order, filled, k) ==
    IF order = << >> THEN EmptyText
    ELSE Section(Head(order), IF Head(order) \in filled THEN k ELSE 0)
             \o SectionsText(Tail(order), filled, k)

\* digest_text: with or without the title line that generate_digest prepends
SplitInput(order, filled, k, titled) ==
    (IF titled THEN <<Title(1, 0), Blank>> ELSE EmptyText)
        \o SectionsText(order, filled, k)

Procs == {"A", "B"}
Callers == {"A"}

\* ---------------------------------------------------------------- history
\* _load_digest_history: the stored list, or [] when reading fails
load_digest_history(file, read_ok) == IF read_ok THEN file ELSE << >>

\* mutant: the history is not cut to the limit
InsertHistory_NoLimit(history, d) == <<d>> \o history

\* history.insert(0, digest); history = history[:DIGEST_HISTORY_LIMIT]
InsertHistory(history, d) ==
    SubSeq(<<d>> \o history, 1, Min(Len(history) + 1, DIGEST_HISTORY_LIMIT))

\* ------------------------------------------------------------ generation
\* mutant: stage 2's output is returned as it is, unchecked and untitled
generate_digest_Bare(s1, s2, t) ==
    IF ~Truthy(s1) \/ IsBlank(s1) THEN <<FailLine(1)>> ELSE s2

\* generate_digest, given what the two stages returned and the time printed
generate_digest(s1, s2, t) ==
    IF ~Truthy(s1) \/ IsBlank(s1) THEN <<FailLine(1)>>
    ELSE IF ~Truthy(s2) \/ IsBlank(s2) THEN <<FailLine(2)>>
    ELSE <<Title(t, 0), Blank>> \o s2

\* mutant: the loop's test forgets the failure indicators
AttemptSucceeded_NoIndicators(d) == Truthy(d) /\ ~IsBlank(d)

\* the test in the retry loop that breaks out of it
AttemptSucceeded(d) == Truthy(d) /\ ~IsBlank(d) /\ ~HasFailureIndicator(d)

\* mutant: the final check forgets the failure indicators
FinalFailure_EmptyOnly(d) == ~Truthy(d)

\* mutant: the final check is missing
FinalFailure_Never(d) == FALSE

\* the test after the loop
FinalFailure(d) == ~Truthy(d) \/ HasFailureIndicator(d)

\* mutant: the error message is always the placeholder
ErrorMessageOf_Placeholder(d) == <<Txt(902)>>

\* error_message = digest or "Empty digest"
ErrorMessageOf(d) == IF Truthy(d) THEN d ELSE <<Txt(902)>>

\* f"Digest generation failed after {max_attempts} attempts. Error: {error_message}"
FailureNotice(err) == <<Txt(901)>> \o err

\* mutant: the empty fetch is not noticed
NoEntries_Never(es) == FALSE

\* if not entries
NoEntries(es) == es = {}

\* mutant: a part is sent whether empty or not
ShouldSend_Always(part) == TRUE

\* if part.strip(): the part is sent
ShouldSend(part) == ~IsBlank(part)

\* mutant: no fallback when the split found nothing
FallbackNeeded_Never(sp) == FALSE

\* if not part1.strip() and not part2.strip(): the fallback
FallbackNeeded(sp) == IsBlank(sp.part1) /\ IsBlank(sp.part2)

\* mutant: part 2 is sent whatever became of part 1
AfterPart1_NoAbort(ok) == "send2"

\* after part 1: a failed send returns at once, a successful one goes on to part 2
AfterPart1(ok) == IF ok THEN "send2" ELSE "sent"

\* mutant: any response counts as a delivery
DeliverySucceeded_AnyResponse(r) == ~r.none

\* if response.get("success")
DeliverySucceeded(r) == r.success

\* f"No new entries found in the past {hours_back} hours ..."
NoEntriesMessage == <<Txt(900)>>

\* ------------------------------------------------------------------ state
VARIABLES
    now,                  \* the wall clock, epoch seconds
    processed_ids_file,   \* PROCESSED_IDS_FILE: the set of ids of its list
    digest_history_file,  \* DIGEST_HISTORY_FILE: its list, most recent first
    runs,                 \* calls of run_digest_process started so far
    pc,                   \* where each call of run_digest_process stands
    send,                 \* its send argument
    entries,              \* the ids of the entries it fetched
    attempt,              \* its attempt counter
    digest,               \* its digest
    error_message,        \* its error_message
    existing_ids,         \* existing_ids of its _update_processed_ids
    parts,                \* part1, part2 of its send_digest
    history,              \* history of its _save_digest_to_history, as loaded
    response,             \* last_response / the result of its send_digest
    sent,                 \* the messages it gave to send_message, with results
    tried,                \* what each generate_digest call of it returned
    ai_calls,             \* its calls of the two summarizer stages
    ret,                  \* the value it returns
    ids0,                 \* processed_ids_file when it was called
    hist0,                \* digest_history_file when it was called
    log                   \* what its _update_processed_ids has logged: the
                          \* success, or the failure with the exception

files == <<processed_ids_file, digest_history_file>>
locals == <<send, entries, attempt, digest, error_message, existing_ids, parts,
            history, response, sent, tried, ai_calls, ret, ids0, hist0, log>>
vars == <<now, processed_ids_file, digest_history_file, runs, pc, send, entries,
          attempt, digest, error_message, existing_ids, parts, history, response,
          sent, tried, ai_calls, ret, ids0, hist0, log>>

\* a send_message result; none = TRUE is Python's None (no send was made)
NoResponse == [none |-> TRUE, success |-> FALSE, of |-> 0]
Response(ok, k) == [none |-> FALSE, success |-> ok, of |-> k]
NoParts == [part1 |-> EmptyText, part2 |-> EmptyText]
NoCalls == [stage1 |-> 0, stage2 |-> 0]

Init ==
    /\ now = T0
    /\ processed_ids_file = {}
    /\ digest_history_file \in {OldHistory(k) : k \in InitHistoryLens}
    /\ runs = 0
    /\ pc = [p \in Procs |-> "idle"]
    /\ send = [p \in Procs |-> FALSE]
    /\ entries = [p \in Procs |-> {}]
    /\ attempt = [p \in Procs |-> 0]
    /\ digest = [p \in Procs |-> EmptyText]
    /\ error_message = [p \in Procs |-> EmptyText]
    /\ existing_ids = [p \in Procs |-> {}]
    /\ parts = [p \in Procs |-> NoParts]
    /\ history = [p \in Procs |-> << >>]
    /\ response = [p \in Procs |-> NoResponse]
    /\ sent = [p \in Procs |-> << >>]
    /\ tried = [p \in Procs |-> << >>]
    /\ ai_calls = [p \in Procs |-> NoCalls]
    /\ ret = [p \in Procs |-> EmptyText]
    /\ ids0 = [p \in Procs |-> {}]
    /\ hist0 = [p \in Procs |-> << >>]
    /\ log = [p \in Procs |-> << >>]

\* time passes between calls (a call is short against a day)
Tick ==
    /\ \A p \in Procs : pc[p] = "idle"
    /\ now < T0 + MaxTicks * TickSeconds
    /\ now' = now + TickSeconds
    /\ UNCHANGED <<files, runs, pc, locals>>

\* no other call of run_digest_process is under way
Serial(p) == \A q \in Procs \ {p} : pc[q] = "idle"

\* run_digest_process(send=s) is called
Start(p, s) ==
    /\ pc[p] = "idle"
    /\ runs < MaxRuns
    /\ runs' = runs + 1
    /\ pc' = [pc EXCEPT ![p] = "fetch"]
    /\ send' = [send EXCEPT ![p] = s]
    /\ ids0' = [ids0 EXCEPT ![p] = processed_ids_file]
    /\ hist0' = [hist0 EXCEPT ![p] = digest_history_file]
    /\ UNCHANGED <<now, files, entries, attempt, digest, error_message,
                   existing_ids, parts, history, response, sent, tried, ai_calls, ret,
                   log>>

\* get_recent_entries: some of the entries whose id is not in the processed-id
\* file; with none, the "no new entries" message is returned
Fetch(p) ==
    /\ pc[p] = "fetch"
    /\ \E es \in get_recent_entries(processed_ids_file) :
          /\ entries' = [entries EXCEPT ![p] = es]
          /\ IF NoEntries(es)
             THEN /\ ret' = [ret EXCEPT ![p] = NoEntriesMessage]
                  /\ pc' = [pc EXCEPT ![p] = "done"]
             ELSE /\ ret' = ret
                  /\ pc' = [pc EXCEPT ![p] = "loop"]
    /\ UNCHANGED <<now, files, runs, send, attempt, digest, error_message,
                   existing_ids, parts, history, response, sent, tried, ai_calls, ids0, hist0, log>>

\* one pass of the retry loop: attempt += 1, generate_digest, break on success
Attempt(p) ==
    /\ pc[p] = "loop"
    /\ attempt[p] < max_attempts
    /\ \E s1 \in Stage1Outputs, s2 \in Stage2Outputs :
          LET d == generate_digest(s1, s2, now)
              stage2_ran == Truthy(s1) /\ ~IsBlank(s1)
          IN /\ attempt' = [attempt EXCEPT ![p] = @ + 1]
             /\ digest' = [digest EXCEPT ![p] = d]
             /\ tried' = [tried EXCEPT ![p] = Append(@, d)]
             /\ ai_calls' = [ai_calls EXCEPT ![p] =
                    [stage1 |-> @.stage1 + 1,
                     stage2 |-> @.stage2 + (IF stage2_ran THEN 1 ELSE 0)]]
             /\ IF AttemptSucceeded(d)
                THEN /\ error_message' = error_message
                     /\ pc' = [pc EXCEPT ![p] = "check"]
                ELSE /\ error_message' = [error_message EXCEPT ![p] = ErrorMessageOf(d)]
                     /\ pc' = [pc EXCEPT ![p] =
                            IF attempt[p] + 1 < max_attempts THEN "loop" ELSE "check"]
    /\ UNCHANGED <<now, files, runs, send, entries, existing_ids, parts,
                   history, response, sent, ret, ids0, hist0, log>>

\* the final check for failure: the failure notice is sent if send, and the
\* digest is returned; otherwise the run goes on to _update_processed_ids
Check(p) ==
    /\ pc[p] = "check"
    /\ IF FinalFailure(digest[p])
       THEN /\ IF send[p]
               THEN \E ok \in SendResults :
                       sent' = [sent EXCEPT ![p] =
                           Append(@, [text |-> FailureNotice(error_message[p]),
                                      ok |-> ok])]
               ELSE sent' = sent
            /\ ret' = [ret EXCEPT ![p] = digest[p]]
            /\ pc' = [pc EXCEPT ![p] = "done"]
       ELSE /\ pc' = [pc EXCEPT ![p] = "read_ids"]
            /\ UNCHANGED <<sent, ret>>
    /\ UNCHANGED <<now, files, runs, send, entries, attempt, digest, error_message,
                   existing_ids, parts, history, response, tried, ai_calls, ids0, hist0, log>>

\* _update_processed_ids, first half: the file is read; a read that raises
\* is caught by the function's except, and nothing is written
ReadIds(p) ==
    /\ pc[p] = "read_ids"
    /\ \E read_ok \in IoResults :
          IF read_ok
          THEN /\ existing_ids' = [existing_ids EXCEPT ![p] = processed_ids_file]
               /\ pc' = [pc EXCEPT ![p] = "write_ids"]
               /\ log' = log
          ELSE /\ existing_ids' = existing_ids
               /\ pc' = [pc EXCEPT ![p] = "deliver"]
               /\ log' = [log EXCEPT ![p] = Append(@, "ids_read_failed")]
    /\ UNCHANGED <<now, files, runs, send, entries, attempt, digest, error_message,
                   parts, history, response, sent, tried, ai_calls, ret, ids0, hist0>>

\* _update_processed_ids, second half: union, cutoff filter, write; the
\* success is logged, or the failure of the write
WriteIds(p) ==
    /\ pc[p] = "write_ids"
    /\ \E write_ok \in IoResults :
          /\ processed_ids_file' =
                 IF write_ok THEN FilteredIds(existing_ids[p], entries[p], now)
                 ELSE processed_ids_file
          /\ log' = [log EXCEPT ![p] =
                        Append(@, IF write_ok THEN "ids_updated"
                                  ELSE "ids_write_failed")]
    /\ pc' = [pc EXCEPT ![p] = "deliver"]
    /\ UNCHANGED <<now, digest_history_file, runs, send, entries, attempt, digest,
                   error_message, existing_ids, parts, history, response, sent,
                   tried, ai_calls, ret, ids0, hist0>>

\* if send: send_digest is entered and the digest is split; else return digest
Deliver(p) ==
    /\ pc[p] = "deliver"
    /\ IF send[p]
       THEN \E sp \in {split_digest_by_category(digest[p])} :
               /\ parts' = [parts EXCEPT ![p] = sp]
               /\ pc' = [pc EXCEPT ![p] =
                      IF FallbackNeeded(sp) THEN "fallback" ELSE "send1"]
               /\ ret' = ret
       ELSE /\ ret' = [ret EXCEPT ![p] = digest[p]]
            /\ pc' = [pc EXCEPT ![p] = "done"]
            /\ parts' = parts
    /\ UNCHANGED <<now, files, runs, send, entries, attempt, digest, error_message,
                   existing_ids, history, response, sent, tried, ai_calls, ids0, hist0, log>>

\* telegram.send_message(text) by p with result ok
SendMessage(p, text, ok) ==
    /\ sent' = [sent EXCEPT ![p] = Append(@, [text |-> text, ok |-> ok])]
    /\ response' = [response EXCEPT ![p] = Response(ok, Len(sent[p]) + 1)]

\* both parts empty: return telegram.send_message(digest_text)
Fallback(p) ==
    /\ pc[p] = "fallback"
    /\ \E ok \in SendResults : SendMessage(p, digest[p], ok)
    /\ pc' = [pc EXCEPT ![p] = "sent"]
    /\ UNCHANGED <<now, files, runs, send, entries, attempt, digest, error_message,
                   existing_ids, parts, history, tried, ai_calls, ret, ids0, hist0, log>>

\* if part1.strip(): send it; a failure is returned at once
SendPart1(p) ==
    /\ pc[p] = "send1"
    /\ IF ShouldSend(parts[p].part1)
       THEN \E ok \in SendResults :
               /\ SendMessage(p, parts[p].part1, ok)
               /\ pc' = [pc EXCEPT ![p] = AfterPart1(ok)]
       ELSE /\ pc' = [pc EXCEPT ![p] = "send2"]
            /\ UNCHANGED <<sent, response>>
    /\ UNCHANGED <<now, files, runs, send, entries, attempt, digest, error_message,
                   existing_ids, parts, history, tried, ai_calls, ret, ids0, hist0, log>>

\* if part2.strip(): send it; then return last_response
SendPart2(p) ==
    /\ pc[p] = "send2"
    /\ IF ShouldSend(parts[p].part2)
       THEN \E ok \in SendResults : SendMessage(p, parts[p].part2, ok)
       ELSE UNCHANGED <<sent, response>>
    /\ pc' = [pc EXCEPT ![p] = "sent"]
    /\ UNCHANGED <<now, files, runs, send, entries, attempt, digest, error_message,
                   existing_ids, parts, history, tried, ai_calls, ret, ids0, hist0, log>>

\* back in run_digest_process: if response.get("success") the digest is saved
\* to the history; response.get on None raises
AfterSend(p) ==
    /\ pc[p] = "sent"
    /\ IF response[p].none
       THEN /\ pc' = [pc EXCEPT ![p] = "raised"]
            /\ ret' = ret
       ELSE IF DeliverySucceeded(response[p])
       THEN /\ pc' = [pc EXCEPT ![p] = "save"]
            /\ ret' = ret
       ELSE /\ pc' = [pc EXCEPT ![p] = "done"]
            /\ ret' = [ret EXCEPT ![p] = digest[p]]
    /\ UNCHANGED <<now, files, runs, send, entries, attempt, digest, error_message,
                   existing_ids, parts, history, response, sent, tried, ai_calls, ids0, hist0, log>>

\* _save_digest_to_history(digest), then return digest
SaveHistory(p) ==
    /\ pc[p] = "save"
    /\ \E read_ok \in IoResults, write_ok \in IoResults :
          LET loaded == load_digest_history(digest_history_file, read_ok)
          IN /\ history' = [history EXCEPT ![p] = loaded]
             /\ digest_history_file' =
                    IF write_ok THEN InsertHistory(loaded, digest[p])
                    ELSE digest_history_file
    /\ ret' = [ret EXCEPT ![p] = digest[p]]
    /\ pc' = [pc EXCEPT ![p] = "done"]
    /\ UNCHANGED <<now, processed_ids_file, runs, send, entries, attempt, digest,
                   error_message, existing_ids, parts, response, sent, tried,
                   ai_calls, ids0, hist0, log>>

\* the call has returned; its frame is gone
Return(p) ==
    /\ pc[p] \in {"done", "raised"}
    /\ pc' = [pc EXCEPT ![p] = "idle"]
    /\ send' = [send EXCEPT ![p] = FALSE]
    /\ entries' = [entries EXCEPT ![p] = {}]
    /\ attempt' = [attempt EXCEPT ![p] = 0]
    /\ digest' = [digest EXCEPT ![p] = EmptyText]
    /\ error_message' = [error_message EXCEPT ![p] = EmptyText]
    /\ existing_ids' = [existing_ids EXCEPT ![p] = {}]
    /\ parts' = [parts EXCEPT ![p] = NoParts]
    /\ history' = [history EXCEPT ![p] = << >>]
    /\ response' = [response EXCEPT ![p] = NoResponse]
    /\ sent' = [sent EXCEPT ![p] = << >>]
    /\ tried' = [tried EXCEPT ![p] = << >>]
    /\ ai_calls' = [ai_calls EXCEPT ![p] = NoCalls]
    /\ ret' = [ret EXCEPT ![p] = EmptyText]
    /\ ids0' = [ids0 EXCEPT ![p] = {}]
    /\ hist0' = [hist0 EXCEPT ![p] = << >>]
    /\ log' = [log EXCEPT ![p] = << >>]
    /\ UNCHANGED <<now, files, runs>>

\* a step of the call p is in
Step(p) ==
    \/ Fetch(p)
    \/ Attempt(p)
    \/ Check(p)
    \/ ReadIds(p)
    \/ WriteIds(p)
    \/ Deliver(p)
    \/ Fallback(p)
    \/ SendPart1(p)
    \/ SendPart2(p)
    \/ AfterSend(p)
    \/ SaveHistory(p)
    \/ Return(p)

\* Runs do not overlap (the design assumes one pipeline run at a time), so
\* they are the successive calls of one caller.
Next ==
    \/ Tick
    \/ \E p \in Callers, s \in BOOLEAN : Serial(p) /\ Start(p, s)
    \/ \E p \in Callers : Step(p)

Spec == Init /\ [][Next]_vars

\* every call that has started keeps taking steps until it returns
FairSpec == Spec /\ \A p \in Callers : WF_vars(Step(p))

\* ------------------------------------------------------- two callers
\* the call of q has finished (or has not begun)
Finished(q) == pc[q] \in {"idle", "done", "raised"}

\* a step of a call made with send=False: no message is sent, no history saved
StepNoSend(p) ==
    \/ Fetch(p)
    \/ Attempt(p)
    \/ Check(p)
    \/ ReadIds(p)
    \/ WriteIds(p)
    \/ Deliver(p)
    \/ Return(p)

\* Runs of two callers that do not overlap: a call begins when the other
\* caller's call has finished.  The calls are made with send=False.
SeqNext ==
    \/ \E p \in Procs : (\A q \in Procs \ {p} : Finished(q)) /\ Start(p, FALSE)
    \/ \E p \in Procs : StepNoSend(p)

SeqSpec == Init /\ [][SeqNext]_vars

\* Runs of two callers with nothing to keep them apart: no lock is taken in
\* run_digest_process or _update_processed_ids.
ConcNext ==
    \/ \E p \in Procs : Start(p, FALSE)
    \/ \E p \in Procs : StepNoSend(p)

ConcSpec == Init /\ [][ConcNext]_vars

\* ------------------------------------------------ collaborators that raise
\* p is at a call of a collaborator: get_recent_entries, the summarizer
\* stages inside generate_digest, or telegram.send_message
AtCollaboratorCall(p) ==
    \/ pc[p] = "fetch"
    \/ pc[p] = "loop" /\ attempt[p] < max_attempts
    \/ pc[p] = "check" /\ FinalFailure(digest[p]) /\ send[p]
    \/ pc[p] = "fallback"
    \/ pc[p] = "send1" /\ ShouldSend(parts[p].part1)
    \/ pc[p] = "send2" /\ ShouldSend(parts[p].part2)

\* the collaborator raises: no try encloses these calls in generate_digest,
\* send_digest or run_digest_process, so the exception leaves the run
Raise(p) ==
    /\ AtCollaboratorCall(p)
    /\ pc' = [pc EXCEPT ![p] = "raised"]
    /\ UNCHANGED <<now, files, runs, send, entries, attempt, digest, error_message,
                   existing_ids, parts, history, response, sent, tried, ai_calls,
                   ret, ids0, hist0, log>>

ExcNext ==
    \/ Next
    \/ \E p \in Callers : Raise(p)

ExcSpec == Init /\ [][ExcNext]_vars

\* ------------------------------------------- the splitter called directly
\* _split_digest_by_category(digest_text) is about to be called by A
SplitInit ==
    /\ now = T0
    /\ processed_ids_file = {}
    /\ digest_history_file = << >>
    /\ runs = 0
    /\ pc = [p \in Procs |-> IF p \in Callers THEN "split" ELSE "idle"]
    /\ send = [p \in Procs |-> FALSE]
    /\ entries = [p \in Procs |-> {}]
    /\ attempt = [p \in Procs |-> 0]
    /\ \E order \in SectionOrders :
          \E filled \in SUBSET {order[i] : i \in 1..Len(order)},
             k \in 1..MaxBodyLines, titled \in BOOLEAN :
             digest = [p \in Procs |->
                          IF p \in Callers THEN SplitInput(order, filled, k, titled)
                          ELSE EmptyText]
    /\ error_message = [p \in Procs |-> EmptyText]
    /\ existing_ids = [p \in Procs |-> {}]
    /\ parts = [p \in Procs |-> NoParts]
    /\ history = [p \in Procs |-> << >>]
    /\ response = [p \in Procs |-> NoResponse]
    /\ sent = [p \in Procs |-> << >>]
    /\ tried = [p \in Procs |-> << >>]
    /\ ai_calls = [p \in Procs |-> NoCalls]
    /\ ret = [p \in Procs |-> EmptyText]
    /\ ids0 = [p \in Procs |-> {}]
    /\ hist0 = [p \in Procs |-> << >>]
    /\ log = [p \in Procs |-> << >>]

\* the call returns (part1_text, part2_text)
SplitCall(p) ==
    /\ pc[p] = "split"
    /\ \E sp \in {split_digest_by_category(digest[p])} :
          parts' = [parts EXCEPT ![p] = sp]
    /\ pc' = [pc EXCEPT ![p] = "split_done"]
    /\ UNCHANGED <<now, files, runs, send, entries, attempt, digest, error_message,
                   existing_ids, history, response, sent, tried, ai_calls, ret,
                   ids0, hist0, log>>

SplitNext == \E p \in Callers : SplitCall(p)

SplitSpec == SplitInit /\ [][SplitNext]_vars

\* ------------------------------ _update_processed_ids called directly
\* _update_processed_ids(entry_ids) is about to be called by A
UpdInit ==
    /\ now \in UpdTimes
    /\ processed_ids_file \in SUBSET IdPool
    /\ digest_history_file = << >>
    /\ runs = 0
    /\ pc = [p \in Procs |-> IF p \in Callers THEN "read_ids" ELSE "idle"]
    /\ send = [p \in Procs |-> FALSE]
    /\ \E ids \in SUBSET IdPool :
          entries = [p \in Procs |-> IF p \in Callers THEN ids ELSE {}]
    /\ attempt = [p \in Procs |-> 0]
    /\ digest = [p \in Procs |-> EmptyText]
    /\ error_message = [p \in Procs |-> EmptyText]
    /\ existing_ids = [p \in Procs |-> {}]
    /\ parts = [p \in Procs |-> NoParts]
    /\ history = [p \in Procs |-> << >>]
    /\ response = [p \in Procs |-> NoResponse]
    /\ sent = [p \in Procs |-> << >>]
    /\ tried = [p \in Procs |-> << >>]
    /\ ai_calls = [p \in Procs |-> NoCalls]
    /\ ret = [p \in Procs |-> EmptyText]
    /\ ids0 = [p \in Procs |-> IF p \in Callers THEN processed_ids_file ELSE {}]
    /\ hist0 = [p \in Procs |-> << >>]
    /\ log = [p \in Procs |-> << >>]

\* the call has returned and is made again with the same entry_ids; runs
\* counts the repetitions
UpdateAgain(p) ==
    /\ pc[p] = "deliver"
    /\ runs + 1 < MaxUpdates
    /\ runs' = runs + 1
    /\ pc' = [pc EXCEPT ![p] = "read_ids"]
    /\ UNCHANGED <<now, files, send, entries, attempt, digest, error_message,
                   existing_ids, parts, history, response, sent, tried, ai_calls,
                   ret, ids0, hist0, log>>

UpdNext ==
    \E p \in Callers :
        \/ ReadIds(p)
        \/ WriteIds(p)
        \/ UpdateAgain(p)

UpdSpec == UpdInit /\ [][UpdNext]_vars

\* ------------------------------ _markdown_to_telegraph_html called directly
\* _markdown_to_telegraph_html(markdown_text) is about to be called by A
MdInit ==
    /\ now = T0
    /\ processed_ids_file = {}
    /\ digest_history_file = << >>
    /\ runs = 0
    /\ pc = [p \in Procs |-> IF p \in Callers THEN "md" ELSE "idle"]
    /\ send = [p \in Procs |-> FALSE]
    /\ entries = [p \in Procs |-> {}]
    /\ attempt = [p \in Procs |-> 0]
    /\ \E n \in 0..MaxMdLines :
          \E text \in [1..n -> MdAlphabet] :
             digest = [p \in Procs |-> IF p \in Callers THEN text ELSE EmptyText]
    /\ error_message = [p \in Procs |-> EmptyText]
    /\ existing_ids = [p \in Procs |-> {}]
    /\ parts = [p \in Procs |-> NoParts]
    /\ history = [p \in Procs |-> << >>]
    /\ response = [p \in Procs |-> NoResponse]
    /\ sent = [p \in Procs |-> << >>]
    /\ tried = [p \in Procs |-> << >>]
    /\ ai_calls = [p \in Procs |-> NoCalls]
    /\ ret = [p \in Procs |-> EmptyText]
    /\ ids0 = [p \in Procs |-> {}]
    /\ hist0 = [p \in Procs |-> << >>]
    /\ log = [p \in Procs |-> << >>]

\* the call returns html_parts (joined)
MdCall(p) ==
    /\ pc[p] = "md"
    /\ ret' = [ret EXCEPT ![p] = markdown_to_telegraph_html(digest[p])]
    /\ pc' = [pc EXCEPT ![p] = "md_done"]
    /\ UNCHANGED <<now, files, runs, send, entries, attempt, digest, error_message,
                   existing_ids, parts, history, response, sent, tried, ai_calls,
                   ids0, hist0, log>>

MdNext == \E p \in Callers : MdCall(p)

MdSpec == MdInit /\ [][MdNext]_vars

\* ================================================================ claims
\* In the claims' words: an attempt's output is a failure when it is empty or
\* blank, or contains one of the two failure markers.
OutputFailed(d) ==
    \/ d = EmptyText
    \/ \A i \in 1..Len(d) : d[i].kind = "blank"
    \/ \E i \in 1..Len(d) : d[i].kind = "fail"

\* every generation attempt of p's run was made and failed
AllAttemptsFailed(p) ==
    /\ Len(tried[p]) = 2
    /\ \A i \in 1..Len(tried[p]) : OutputFailed(tried[p][i])

\* C1: when every generation attempt of a run fails, run_digest_process
\* returns the failure text (the last attempt's output, which carries a
\* failure marker) and the processed-id file and the history file are as they
\* were when the run began, whether send is True or False.
C1_FailedRunLeavesFiles ==
    \A p \in Procs :
        pc[p] = "done" /\ AllAttemptsFailed(p) =>
            /\ ret[p] = tried[p][2]
            /\ \E i \in 1..Len(ret[p]) : ret[p][i].kind = "fail"
            /\ processed_ids_file = ids0[p]
            /\ digest_history_file = hist0[p]

\* a run with send=True whose two attempts failed (a stage-2 failure last) has
\* returned, after sending its notice
C1_Witness ==
    \E p \in Procs :
        /\ pc[p] = "done" /\ AllAttemptsFailed(p) /\ send[p]
        /\ ret[p] = <<FailLine(2)>> /\ Len(sent[p]) = 1

\* C2 as claimed: a run that ends without a successful delivery of its digest
\* (the delivery failed or was not requested) has added no id to the
\* processed-id file.
C2_IdsOnlyAfterDelivery ==
    \A p \in Procs :
        pc[p] = "done" /\ processed_ids_file \ ids0[p] # {} =>
            send[p] /\ ~response[p].none /\ response[p].success

\* C2 as amended: a run adds ids to the processed-id file only once its digest
\* passed the final failure check (it is non-empty and carries no failure
\* marker), the ids it adds are ids of the entries it fetched, and they are
\* written before any message of the run is sent, so whatever delivery does.
C2_IdsOnlyAfterGeneration ==
    \A p \in Procs :
        pc[p] # "idle" /\ processed_ids_file \ ids0[p] # {} =>
            /\ digest[p] # EmptyText
            /\ \A i \in 1..Len(digest[p]) : digest[p][i].kind # "fail"
            /\ processed_ids_file \ ids0[p] \subseteq entries[p]
            /\ pc[p] \in {"deliver", "fallback", "send1", "send2", "sent", "save",
                          "done"}
            /\ pc[p] = "deliver" => sent[p] = << >>

\* a run whose delivery failed has returned, and its ids are in the file
C2_Witness ==
    \E p \in Procs :
        /\ pc[p] = "done" /\ send[p] /\ ~response[p].none /\ ~response[p].success
        /\ entries[p] # {} /\ entries[p] \subseteq processed_ids_file
        /\ ids0[p] = {}

\* C3: the digest is put into the history only if delivery was requested and
\* its result reports success; a run with a failed send (part 1, part 2 or the
\* unsplit fallback) or with send=False leaves the history file as it was.
C3_HistoryOnlyAfterDelivery ==
    \A p \in Procs :
        pc[p] # "idle" =>
            /\ digest_history_file # hist0[p] =>
                  /\ send[p] /\ sent[p] # << >>
                  /\ \A i \in 1..Len(sent[p]) : sent[p][i].ok
                  /\ digest_history_file[1] = digest[p]
            /\ pc[p] = "done" /\ (~send[p] \/ \E i \in 1..Len(sent[p]) : ~sent[p][i].ok)
                  => digest_history_file = hist0[p]

\* a run whose part 1 was delivered and whose part 2 failed has returned
C3_Witness ==
    \E p \in Procs :
        /\ pc[p] = "done" /\ send[p] /\ Len(sent[p]) = 2
        /\ sent[p][1].ok /\ ~sent[p][2].ok
        /\ sent[p][2].text = parts[p].part2

PastLoop(p) ==
    pc[p] \in {"check", "read_ids", "write_ids", "deliver", "fallback", "send1",
               "send2", "sent", "save", "done"} /\ entries[p] # {}

C5_Attempts(p) ==
    /\ Len(tried[p]) = attempt[p]
    /\ PastLoop(p) => attempt[p] \in 1..2
    /\ PastLoop(p) => (attempt[p] = 2 <=> OutputFailed(tried[p][1]))
    /\ pc[p] = "loop" /\ attempt[p] >= 1 =>
          attempt[p] = 1 /\ OutputFailed(tried[p][1])
    /\ \A i \in 1..(Len(tried[p]) - 1) : OutputFailed(tried[p][i])

\* C5: in a run with at least one entry, generation is attempted at least
\* once and at most twice; a second attempt is made if and only if the first
\* failed, no attempt follows a successful one, and a call that is in the
\* retry loop leaves it and goes on to return.
C5_BoundedRetry ==
    /\ [](\A p \in Procs : C5_Attempts(p))
    /\ \A p \in Callers : (pc[p] = "loop") ~> (pc[p] = "done")

\* a run whose first attempt failed in stage 1 and whose second succeeded
C5_Witness ==
    \E p \in Procs :
        /\ PastLoop(p) /\ attempt[p] = 2
        /\ tried[p][1] = <<FailLine(1)>> /\ ~OutputFailed(tried[p][2])

\* C6: when the fetch returns no entries, run_digest_process returns the
\* "no new entries" message, neither summarizer stage has been called, no
\* message has been sent, and both files are as they were.
C6_NoEntriesNoEffect ==
    \A p \in Procs :
        pc[p] = "done" /\ entries[p] = {} =>
            /\ ret[p] = <<Txt(900)>>
            /\ ai_calls[p].stage1 = 0 /\ ai_calls[p].stage2 = 0
            /\ tried[p] = << >>
            /\ sent[p] = << >>
            /\ processed_ids_file = ids0[p]
            /\ digest_history_file = hist0[p]

\* a run with send=True that found every entry already processed has returned
C6_Witness ==
    \E p \in Procs :
        /\ pc[p] = "done" /\ entries[p] = {} /\ send[p]
        /\ ids0[p] = AllEntries /\ ret[p] = <<Txt(900)>>

\* C7: when all generation attempts fail, with send exactly one message has
\* been sent, the failure notice with the last attempt's error, and no digest
\* part; without send no message has been sent.
C7_FailureNoticeOnly ==
    \A p \in Procs :
        pc[p] = "done" /\ AllAttemptsFailed(p) =>
            IF send[p]
            THEN /\ Len(sent[p]) = 1
                 /\ sent[p][1].text = <<Txt(901)>> \o tried[p][2]
            ELSE sent[p] = << >>

\* a notice that carries the second attempt's error, which is not the first's
C7_Witness ==
    \E p \in Procs :
        /\ pc[p] = "done" /\ AllAttemptsFailed(p) /\ send[p]
        /\ tried[p][1] = <<FailLine(1)>> /\ tried[p][2] = <<FailLine(2)>>
        /\ sent[p] = <<[text |-> <<Txt(901), FailLine(2)>>, ok |-> TRUE]>>

\* a part the splitter returned non-empty
NonEmptyPart(part) == \E i \in 1..Len(part) : part[i].kind # "blank"

\* C8: in send_digest with both parts non-empty, part 1 is the first message
\* sent, part 2 is sent only after part 1 reported success, and when part 1
\* fails nothing more is sent and part 1's result is what is returned.
C8_Part1BeforePart2 ==
    \A p \in Procs :
        /\ pc[p] \in {"send2", "sent", "save", "done"}
        /\ NonEmptyPart(parts[p].part1) /\ NonEmptyPart(parts[p].part2)
        => /\ Len(sent[p]) \in 1..2
           /\ sent[p][1].text = parts[p].part1
           /\ Len(sent[p]) = 2 =>
                 sent[p][1].ok /\ sent[p][2].text = parts[p].part2
           /\ ~sent[p][1].ok =>
                 /\ Len(sent[p]) = 1
                 /\ pc[p] # "send2"
                 /\ response[p] = [none |-> FALSE, success |-> FALSE, of |-> 1]

\* send_digest has returned after a failed part 1, part 2 unsent
C8_Witness ==
    \E p \in Procs :
        /\ pc[p] = "sent"
        /\ NonEmptyPart(parts[p].part1) /\ NonEmptyPart(parts[p].part2)
        /\ Len(sent[p]) = 1 /\ ~sent[p][1].ok

\* C9: the result send_digest returns is never None, it is the result of the
\* last send made, and it reports success if and only if every send made for
\* the digest reported success.
C9_ResultIsLastSend ==
    \A p \in Procs :
        pc[p] = "sent" =>
            /\ ~response[p].none
            /\ Len(sent[p]) >= 1
            /\ response[p].of = Len(sent[p])
            /\ response[p].success = sent[p][Len(sent[p])].ok
            /\ response[p].success <=> \A i \in 1..Len(sent[p]) : sent[p][i].ok

\* send_digest has returned success after two sends
C9_Witness ==
    \E p \in Procs :
        /\ pc[p] = "sent" /\ Len(sent[p]) = 2
        /\ response[p] = [none |-> FALSE, success |-> TRUE, of |-> 2]

\* C10: send_digest sends no empty part: an empty part is skipped, and when
\* both parts are empty exactly one message is sent, the whole digest unsplit.
C10_NoEmptyPartSent ==
    \A p \in Procs :
        pc[p] \in {"sent", "save"} =>
            /\ \A i \in 1..Len(sent[p]) : NonEmptyPart(sent[p][i].text)
            /\ IF ~NonEmptyPart(parts[p].part1) /\ ~NonEmptyPart(parts[p].part2)
               THEN Len(sent[p]) = 1 /\ sent[p][1].text = digest[p]
               ELSE /\ \A i \in 1..Len(sent[p]) :
                          sent[p][i].text \in {parts[p].part1, parts[p].part2}
                    /\ ~NonEmptyPart(parts[p].part1) =>
                          Len(sent[p]) = 1 /\ sent[p][1].text = parts[p].part2
                    /\ ~NonEmptyPart(parts[p].part2) =>
                          Len(sent[p]) = 1 /\ sent[p][1].text = parts[p].part1

\* the fallback: the split found nothing and the whole digest has been sent
C10_Witness ==
    \E p \in Procs :
        /\ pc[p] = "sent"
        /\ parts[p] = [part1 |-> EmptyText, part2 |-> EmptyText]
        /\ Len(sent[p]) = 1 /\ sent[p][1].text = digest[p]
        /\ NonEmptyPart(digest[p])

\* the categories of the "## <category>" headers of a text, in their order
CatsOf(text) ==
    LET hs == SelectSeq(text, LAMBDA l : l.kind = "hdr")
    IN [i \in 1..Len(hs) |-> hs[i].cat]

\* the text has the header of c, and content under it before the next header
HasContent(text, c) ==
    \E i \in 1..Len(text) :
        /\ text[i].kind = "hdr" /\ text[i].cat = c
        /\ \E j \in (i + 1)..Len(text) :
              /\ text[j].kind \notin {"blank", "hdr"}
              /\ \A k \in (i + 1)..(j - 1) : text[k].kind = "blank"

\* the title a split part must show: that of the digest, or the default one
TitleStamp(text) == IF text # << >> /\ text[1].kind = "title" THEN text[1].n ELSE 0

\* C11: for a digest with all six category headers, each with content, in
\* any order, the splitter returns two non-empty parts titled "(1/2)" and
\* "(2/2)"; part 1 holds AI, Semi, Smartphone in that order and part 2 Other
\* Tech, World News, Misc in that order, each with content under its header.
C11_SixCategoriesTwoParts ==
    \A p \in Procs :
        /\ pc[p] = "split_done"
        /\ \A c \in {"AI", "Semi", "Smartphone", "Other Tech", "World News", "Misc"} :
               HasContent(digest[p], c)
        => LET p1 == parts[p].part1
               p2 == parts[p].part2
           IN /\ p1 # << >> /\ p2 # << >>
              /\ p1[1] = [kind |-> "title", cat |-> "", n |-> TitleStamp(digest[p]),
                          mark |-> 1]
              /\ p2[1] = [kind |-> "title", cat |-> "", n |-> TitleStamp(digest[p]),
                          mark |-> 2]
              /\ CatsOf(p1) = <<"AI", "Semi", "Smartphone">>
              /\ CatsOf(p2) = <<"Other Tech", "World News", "Misc">>
              /\ \A c \in {"AI", "Semi", "Smartphone"} : HasContent(p1, c)
              /\ \A c \in {"Other Tech", "World News", "Misc"} : HasContent(p2, c)

\* an untitled digest whose sections come in the reverse of the fixed order
\* has been split into two parts under the default title
C11_Witness ==
    \E p \in Procs :
        /\ pc[p] = "split_done"
        /\ CatsOf(digest[p]) =
               <<"Misc", "World News", "Other Tech", "Smartphone", "Semi", "AI">>
        /\ \A i \in 1..6 : HasContent(digest[p], CatsOf(digest[p])[i])
        /\ CatsOf(parts[p].part1) = <<"AI", "Semi", "Smartphone">>
        /\ parts[p].part1[1].mark = 1 /\ parts[p].part1[1].n = 0

\* the categories of the group that have content in the text
Filled(text, group) == {c \in group : HasContent(text, c)}

\* C12: for a digest whose category content lies in one group only, the
\* splitter returns exactly one non-empty part, for that group, and the empty
\* string for the other; the part's title is the digest's title (the default
\* title when it has none) with no "(1/2)"/"(2/2)" suffix.  For every digest
\* the suffixes are on both parts or on neither.
C12_OneGroupOnePart ==
    \A p \in Procs :
        pc[p] = "split_done" =>
            LET p1 == parts[p].part1
                p2 == parts[p].part2
                g1 == Filled(digest[p], {"AI", "Semi", "Smartphone"})
                g2 == Filled(digest[p], {"Other Tech", "World News", "Misc"})
                plain == [kind |-> "title", cat |-> "", n |-> TitleStamp(digest[p]),
                          mark |-> 0]
            IN /\ g1 # {} /\ g2 = {} =>
                     /\ p2 = << >> /\ p1 # << >> /\ p1[1] = plain
                     /\ {CatsOf(p1)[i] : i \in 1..Len(CatsOf(p1))} = g1
               /\ g1 = {} /\ g2 # {} =>
                     /\ p1 = << >> /\ p2 # << >> /\ p2[1] = plain
                     /\ {CatsOf(p2)[i] : i \in 1..Len(CatsOf(p2))} = g2
               /\ (p1 # << >> /\ p1[1].mark # 0) \/ (p2 # << >> /\ p2[1].mark # 0) =>
                     /\ p1 # << >> /\ p2 # << >>
                     /\ p1[1].mark = 1 /\ p2[1].mark = 2

\* a titled digest with empty AI and Semi sections and content under Misc
\* only has been split into part 2 alone, under the unchanged title
C12_Witness ==
    \E p \in Procs :
        /\ pc[p] = "split_done"
        /\ CatsOf(digest[p]) = <<"AI", "Misc", "Semi">>
        /\ Filled(digest[p], {"AI", "Semi", "Smartphone", "Other Tech",
                               "World News", "Misc"}) = {"Misc"}
        /\ digest[p][1] = Title(1, 0)
        /\ parts[p].part1 = << >>
        /\ parts[p].part2 = <<Title(1, 0), Blank, Hdr("Misc"), Txt(1)>>

\* the number written by the first k digits of an id
RECURSIVE Decimal(_, _)
Decimal(id, k) == IF k = 0 THEN 0 ELSE 10 * Decimal(id, k - 1) + id[k]

\* the timestamp in the first ten digits of an id (all of them, if fewer)
Stamp(id) == Decimal(id, IF Len(id) < 10 THEN Len(id) ELSE 10)

\* the id's timestamp is not older than 48 hours before the time t
InWindow(id, t) == Stamp(id) >= t - 48 * 3600

\* p's _update_processed_ids has just returned after completing its write
WriteCompleted(p) ==
    pc[p] = "deliver" /\ log[p] # << >> /\ log[p][Len(log[p])] = "ids_updated"

\* C13: after an _update_processed_ids call that completed its write, the
\* persisted set holds no id whose first-ten-digit timestamp is older than
\* 48 hours before the call, and it holds every id of the existing set and
\* of the new ids whose timestamp is within the window.
C13_WindowAfterUpdate ==
    \A p \in Procs :
        WriteCompleted(p) =>
            /\ \A id \in processed_ids_file : InWindow(id, now)
            /\ \A id \in existing_ids[p] \cup entries[p] :
                  InWindow(id, now) => id \in processed_ids_file
            /\ processed_ids_file \subseteq existing_ids[p] \cup entries[p]

\* an update at T0 has dropped an existing id a second too old and a new id
\* of two digits, and has kept a new id stamped exactly at the cutoff
C13_Witness ==
    \E p \in Procs :
        /\ WriteCompleted(p) /\ now = 1700000000
        /\ existing_ids[p] = {<<1, 6, 9, 9, 8, 2, 7, 1, 9, 9, 0, 0, 0, 0, 0, 1>>}
        /\ entries[p] = {<<4, 2>>, <<1, 6, 9, 9, 8, 2, 7, 2, 0, 0, 0, 0, 0, 0, 0, 2>>}
        /\ processed_ids_file = {<<1, 6, 9, 9, 8, 2, 7, 2, 0, 0, 0, 0, 0, 0, 0, 2>>}

\* C14: an _update_processed_ids call whose new ids are all in the persisted
\* set already, all persisted ids being within the 48-hour window, leaves the
\* persisted set as it was when its write completes; and the same update made
\* twice leaves what it left after the first.
C14_UpdateIdempotent ==
    \A p \in Procs :
        WriteCompleted(p) =>
            /\ (/\ entries[p] \subseteq existing_ids[p]
                /\ \A id \in existing_ids[p] : InWindow(id, now))
                  => processed_ids_file = existing_ids[p]
            /\ Len(log[p]) >= 2 /\ log[p][Len(log[p]) - 1] = "ids_updated"
                  => processed_ids_file = existing_ids[p]

\* the second of two completed updates with new ids, one of them too old, has
\* left the set the first one wrote, which is not the set the first one found
C14_Witness ==
    \E p \in Procs :
        /\ WriteCompleted(p) /\ log[p] = <<"ids_updated", "ids_updated">>
        /\ processed_ids_file = existing_ids[p]
        /\ processed_ids_file # ids0[p]
        /\ \E id \in entries[p] : ~InWindow(id, now)
        /\ \E id \in entries[p] : Stamp(id) = now - 48 * 3600

\* p's run generated its digest successfully and is past the tracker update
PastUpdate(p) ==
    /\ pc[p] \in {"deliver", "fallback", "send1", "send2", "sent", "save", "done"}
    /\ entries[p] # {}
    /\ digest[p] # << >>
    /\ \A i \in 1..Len(digest[p]) : digest[p][i].kind # "fail"

\* C15: in non-overlapping runs an entry used in a successfully generated
\* digest is not selected again: the fetch of a run returns no id that is in
\* the persisted set, and a run that generated its digest has, once past
\* its tracker update, the ids of all the entries it used in the persisted set.
C15_UsedIdsNeverReselected ==
    \A p \in Procs :
        /\ pc[p] # "idle" => entries[p] \cap ids0[p] = {}
        /\ PastUpdate(p) => entries[p] \subseteq processed_ids_file

\* the tracker update of p's run has just ended on a failed read of the file
ReadFailed(p) ==
    pc[p] = "deliver" /\ log[p] # << >> /\ log[p][Len(log[p])] = "ids_read_failed"

\* C16: a read failure degrades to an empty store: when the processed-id
\* file cannot be read, the update goes on as with no existing ids and the
\* file then holds the run's new ids that are within the window; when the
\* history file cannot be read, the digest is saved to an empty history; and
\* the run goes on to return its digest.
C16_ReadFailureDegrades ==
    \A p \in Procs :
        /\ ReadFailed(p) =>
              processed_ids_file = {id \in entries[p] : InWindow(id, now)}
        /\ (/\ pc[p] = "done" /\ ~response[p].none /\ response[p].success
            /\ hist0[p] # << >> /\ history[p] = << >>)
              => digest_history_file \in {<<digest[p]>>, hist0[p]}
        /\ pc[p] = "done" /\ log[p] = <<"ids_read_failed">> => ret[p] = digest[p]

\* C17: no exception escapes run_digest_process: whatever a collaborator
\* call does, a failure it raises included, the run ends by returning a
\* string, never by raising.
C17_NoExceptionEscapes == \A p \in Procs : pc[p] # "raised"

\* the output of the last generation attempt of p's run
LastTried(p) == tried[p][Len(tried[p])]

\* C18: the test in the retry loop and the test after it agree on every
\* output of generate_digest: a run is on the success path (tracker update,
\* delivery) only if its last attempt's output is neither empty or blank nor
\* carries a failure marker, a run that has returned after such an output
\* has been through the tracker update, and one that has returned after a
\* failed output has not; no whitespace-only digest gets there.
C18_TestsAgree ==
    \A p \in Procs :
        /\ pc[p] \in {"read_ids", "write_ids", "deliver", "fallback", "send1",
                       "send2", "sent", "save"}
              => /\ tried[p] # << >> /\ digest[p] = LastTried(p)
                 /\ ~OutputFailed(LastTried(p))
        /\ pc[p] = "done" /\ tried[p] # << >> =>
              /\ OutputFailed(LastTried(p)) <=> log[p] = << >>
              /\ OutputFailed(LastTried(p)) =>
                    /\ processed_ids_file = ids0[p]
                    /\ \A i \in 1..Len(sent[p]) : sent[p][i].text[1] = Txt(901)

\* a run is at its tracker update on the strength of its second attempt, the
\* first having returned the stage-2 failure text
C18_Witness ==
    \E p \in Procs :
        /\ pc[p] = "read_ids" /\ Len(tried[p]) = 2
        /\ tried[p][1] = <<FailLine(2)>>
        /\ tried[p][2][1].kind = "title" /\ ~OutputFailed(tried[p][2])

\* p's run has folded its entries into a successfully generated digest
Folded(p) ==
    /\ pc[p] \in {"read_ids", "write_ids", "deliver", "fallback", "send1", "send2",
                   "sent", "save", "done"}
    /\ entries[p] # {}
    /\ digest[p] # << >>
    /\ \A i \in 1..Len(digest[p]) : digest[p][i].kind # "fail"

\* two runs have each folded the same entry into their own digest
DoubleUse ==
    \E p, q \in Procs :
        p # q /\ Folded(p) /\ Folded(q) /\ entries[p] \cap entries[q] # {}

\* two runs have each completed a tracker write, and an id that one of them
\* wrote, still within the window, is not in the file
LostUpdate ==
    \E p, q \in Procs :
        /\ p # q
        /\ \E i \in 1..Len(log[p]) : log[p][i] = "ids_updated"
        /\ \E i \in 1..Len(log[q]) : log[q][i] = "ids_updated"
        /\ \E id \in entries[p] : InWindow(id, now) /\ id \notin processed_ids_file

\* C19, for runs that do not overlap: no two runs fold the same entry into
\* their digests, and no id a run wrote to the processed-id file is lost by
\* another run's write.  (With overlapping runs both are reachable: see
\* C19_RaceDoubleUse and C19_RaceLostUpdate.)
C19_SerialRunsSafe == ~DoubleUse /\ ~LostUpdate

\* reached when runs overlap: B fetched the entry A had fetched before A
\* recorded it, and both went on to their tracker updates
C19_RaceDoubleUse ==
    /\ DoubleUse
    /\ \A p \in Procs : pc[p] \in {"read_ids", "write_ids"} /\ log[p] = << >>

\* reached when runs overlap: both runs read the file before either wrote,
\* and the later write has overwritten the ids of the earlier one
C19_RaceLostUpdate ==
    /\ LostUpdate
    /\ \A p \in Procs : log[p] = <<"ids_updated">> /\ existing_ids[p] = {}
    /\ entries["A"] \cap entries["B"] = {}

\* the elements from the i-th on keep to the list discipline, a list being
\* open or not before them: a list is opened only when none is open and a
\* list item follows at once, an item stands only in an open list, any other
\* element only outside, and no list is open at the end
RECURSIVE ListDiscipline(_, _, _)
ListDiscipline(html, i, open) ==
    IF i > Len(html) THEN ~open
    ELSE IF html[i].tag = "ul"
         THEN /\ ~open /\ i < Len(html) /\ html[i + 1].tag = "li"
              /\ ListDiscipline(html, i + 1, TRUE)
    ELSE IF html[i].tag = "/ul"
         THEN open /\ ListDiscipline(html, i + 1, FALSE)
    ELSE IF html[i].tag = "li"
         THEN open /\ ListDiscipline(html, i + 1, TRUE)
    ELSE ~open /\ ListDiscipline(html, i + 1, FALSE)

\* how many of the elements have the tag
CountTag(html, t) == Cardinality({i \in 1..Len(html) : html[i].tag = t})

\* the text with its surrounding blank lines cut off, as the converter reads it
Trimmed(text) ==
    LET inner == {i \in 1..Len(text) : text[i].kind # "blank"}
    IN IF inner = {} THEN << >>
       ELSE LET lo == CHOOSE i \in inner : \A j \in inner : i <= j
                hi == CHOOSE i \in inner : \A j \in inner : i >= j
            IN [k \in 1..(hi - lo + 1) |-> text[lo + k - 1]]

\* the number of runs of bullet lines: bullet lines not preceded by a bullet line
BulletRuns(lines) ==
    Cardinality({i \in 1..Len(lines) :
                    /\ lines[i].kind = "bullet"
                    /\ i = 1 \/ lines[i - 1].kind # "bullet"})

\* the lines that are not "# " title lines
Untitled(lines) == SelectSeq(lines, LAMBDA l : l.kind # "title")

ContentElements(html) == SelectSeq(html, LAMBDA e : e.tag \in {"h4", "li", "p"})

\* the non-blank lines of a text
NonBlank(text) == SelectSeq(text, LAMBDA l : l.kind # "blank")

\* the non-blank lines without a title line that leads them
AfterLeadingTitle(text) ==
    LET lines == NonBlank(text)
    IN IF lines # << >> /\ lines[1].kind = "title" THEN Tail(lines) ELSE lines

\* C21: _markdown_to_telegraph_html drops only a single leading "# " title
\* line: every other non-blank line, a later "# " line included, gives
\* exactly one element (heading, list item or paragraph) with its content,
\* in the order of the lines, so no content line after the title is lost.
C21_OnlyLeadingTitleDropped ==
    \A p \in Procs :
        pc[p] = "md_done" =>
            LET kept == AfterLeadingTitle(digest[p])
                out == ContentElements(ret[p])
            IN /\ Len(out) = Len(kept)
               /\ \A i \in 1..Len(out) : out[i].src = <<kept[i]>>

\* what the conversion does keep: every non-blank line that is not a "# "
\* line gives exactly one element with its content, in the order of the lines
C21_NonTitleLinesKept ==
    \A p \in Procs :
        pc[p] = "md_done" =>
            LET kept == Untitled(NonBlank(digest[p]))
                out == ContentElements(ret[p])
            IN /\ Len(out) = Len(kept)
               /\ \A i \in 1..Len(out) : out[i].src = <<kept[i]>>

\* a "# " line after a paragraph has been converted and has left no element
C21_LaterTitleLost ==
    \E p \in Procs :
        /\ pc[p] = "md_done"
        /\ Len(digest[p]) = 2
        /\ digest[p][1].kind = "text" /\ digest[p][2].kind = "title"
        /\ Len(ret[p]) = 1 /\ ret[p][1].tag = "p"

====
